---------------------------- MODULE Spec2Model ----------------------------
(***************************************************************************)
(* PaComprar auction backend: listings (Subasta), bids (Puja) and ratings  *)
(* (Rating) as stored rows, and the request handlers of subastas/views.py  *)
(* as actions over them.                                                   *)
(*                                                                         *)
(* Units.  Money is counted in cents (DecimalField, decimal_places=2), the *)
(* mean rating in hundredths (DecimalField, decimal_places=2), time in     *)
(* units of 15 days (the only duration the code names).                    *)
(***************************************************************************)
EXTENDS Integers, FiniteSets, Sequences, TLC

\* ------------------------------------------------------------------ bounds
MaxTime     == 2      \* the clock runs 0..MaxTime
MaxSubastas == 1      \* listings ever created
MaxPujas    == 2      \* bids ever created
MaxRatings  == 3      \* ratings ever created
MaxCents    == 3      \* largest amount a request carries, in cents
MaxCategorias  == 1   \* categories ever created
MaxComentarios == 1   \* comments ever created

\* timedelta(days=15), in time units
QuinceDias == 1

\* ----------------------------------------------------------------- domains
Users    == {"ana", "beto", "admin"}
Anon     == "anon"
Nadie    == "nadie"                       \* usuario = NULL
Callers  == Users \cup {Anon}
Procs    == {1, 2}

is_staff(u)         == u = "admin"
is_authenticated(u) == u \in Users

Fechas            == 0..(MaxTime + 1)
Cantidades        == (-1)..MaxCents
Formas            == {"texto", "numero"}   \* JSON string / JSON number
PreciosEntrada    == 0..(MaxCents - 1)
ValoresEntrada    == {0, 4, 5, 6}
DuenosEntrada     == {"beto", Nadie}
Pujadores         == {"beto", Anon}
Valoradores       == {"ana", "beto"}
ValoracionEntrada == {50, 100, 450}

\* titulo, descripcion and marca are strings: sequences of characters
Letras == {"a", "A", "b", "B"}
\* what a creation request carries besides price, close time and mean
FichaSimple ==
    [titulo |-> <<"a">>, descripcion |-> <<"a">>, marca |-> <<"a">>, categoria |-> 1]
FichasEntrada ==
    { [titulo |-> <<"A", "b", "a">>, descripcion |-> <<"b", "b">>,
       marca |-> <<"a">>, categoria |-> 1],
      [titulo |-> <<"b">>, descripcion |-> <<"a", "a", "a", "b">>,
       marca |-> <<"B", "A", "B">>, categoria |-> 1],
      [titulo |-> <<"b">>, descripcion |-> <<"b">>,
       marca |-> <<"b">>, categoria |-> 2] }

VARIABLES
    now,            \* timezone.now()
    subastas,       \* id -> row of subastas_subasta
    pujas,          \* id -> row of subastas_puja
    ratings,        \* id -> row of subastas_rating
    nextSubasta,    \* next primary key of each table
    nextPuja,
    nextRating,
    resp,           \* the response of the request handled last
    procs,          \* rating creations in flight, handled step by step
    categorias,     \* ids of the rows of subastas_categoria
    comentarios,    \* id -> row of subastas_comentario
    nextCategoria,
    nextComentario,
    pujando,        \* bid creations in flight, handled step by step
    leyendo         \* reads of a listing in flight, handled step by step

vars == <<now, subastas, pujas, ratings, nextSubasta, nextPuja, nextRating, resp, procs,
          categorias, comentarios, nextCategoria, nextComentario, pujando, leyendo>>
resto == <<categorias, comentarios, nextCategoria, nextComentario>>
db   == <<subastas, pujas, ratings, nextSubasta, nextPuja, nextRating, resto>>

\* what the caller is told: the handler, "ok" or why not, and the listing
Resp(op, motivo, l) == [op |-> op, ok |-> motivo = "ok", motivo |-> motivo, sub |-> l]
NoResp == Resp("none", "ok", 0)
Idle   == [pc |-> "idle", usuario |-> Nadie, sub |-> 0, valor |-> 0,
           valoracion |-> 0, media |-> 0, fin |-> "-"]
\* no bid creation in flight
SinPuja == [pc |-> "idle", usuario |-> Nadie, sub |-> 0, cents |-> 0,
            forma |-> "texto", precio |-> 0, hay |-> FALSE, max |-> 0, fin |-> "-"]

\* no read in flight
SinLectura == [pc |-> "idle", sub |-> 0, fecha_cierre |-> 0, estado |-> "-"]

\* ------------------------------------------------------------- lifecycle
\* Estado with the boundary off by one: a listing still open at its close time
EstadoTardio(fecha_cierre, t) ==
    IF fecha_cierre < t THEN "cerrada" ELSE "abierta"

\* Subasta.save: the status written from the close time
Estado(fecha_cierre, t) ==
    IF fecha_cierre <= t THEN "cerrada" ELSE "abierta"

\* SubastaDetailSerializer.get_estado_actual
get_estado_actual(fecha_cierre, t) ==
    IF fecha_cierre <= t THEN "cerrada" ELSE "abierta"

\* ActualizarEstado without the comparison of the close time
ActualizarEstadoSinFecha(subs, l, t) ==
    IF subs[l].estado = "abierta"
    THEN [subs EXCEPT ![l].estado = "cerrada"]
    ELSE subs

\* get_object / get_queryset: a stored 'abierta' past the close time is
\* saved again (update_fields=['estado'], through Subasta.save)
ActualizarEstado(subs, l, t) ==
    IF subs[l].fecha_cierre <= t /\ subs[l].estado = "abierta"
    THEN [subs EXCEPT ![l].estado = Estado(subs[l].fecha_cierre, t)]
    ELSE subs

\* SubastaCerrada with the check left out
SubastaNuncaCerrada(s, t) ==
    FALSE

\* SubastaCerrada trusting the stored status alone
SubastaCerradaAlmacenada(s, t) ==
    s.estado = "cerrada"

\* the open-state guard of the bid handlers
SubastaCerrada(s, t) ==
    s.estado = "cerrada" \/ s.fecha_cierre <= t

\* ------------------------------------------------------------------ money
\* Decimal(float(c/100)) against c/100, for the cents the model uses: the
\* binary64 nearest to 0.01, 0.02, 0.04, ... lies above the decimal, the one
\* nearest to 0.03, 0.06, 0.09 below, 0.00 is exact.
FloatArriba == {1, 2, 4, 5, 7, 8, 10, 11}
FloatAbajo  == {3, 6, 9}

Abs(x) == IF x < 0 THEN -x ELSE x
Signo(x) == IF x < 0 THEN -1 ELSE IF x > 0 THEN 1 ELSE 0

ErrorBinario(c) ==
    Signo(c) * (IF Abs(c) \in FloatArriba THEN 1
                ELSE IF Abs(c) \in FloatAbajo THEN -1 ELSE 0)

\* Decimal(self.request.data.get('cantidad', 0)): exact for a JSON string,
\* the binary expansion of the float for a JSON number.  <<cents, e>> is
\* cents/100 + e*epsilon.
DecimalDeDato(dato) ==
    [c |-> dato.cents, e |-> IF dato.forma = "numero" THEN ErrorBinario(dato.cents) ELSE 0]

\* DecimalField.to_internal_value: Decimal(str(data)), exact cents
DecimalDeCampo(dato) == dato.cents

\* DecMenorIgual with the comparison never true: no amount is too low
DecMenorIgualNunca(d, cents) ==
    FALSE

\* DecMenorIgual with < for <=
DecMenor(d, cents) ==
    d.c < cents \/ (d.c = cents /\ d.e < 0)

\* nueva <= stored, nueva a Decimal of the view, stored exact cents
DecMenorIgual(d, cents) ==
    d.c < cents \/ (d.c = cents /\ d.e <= 0)

Datos == [cents : Cantidades, forma : Formas]

\* ----------------------------------------------------------------- prices
PujasDe(ps, l) == {p \in DOMAIN ps : ps[p].subasta = l}

MaxDe(S) == CHOOSE x \in S : \A y \in S : y <= x

\* aggregate(Max('cantidad')): the maximum, None when there is no bid
HayPujas(ps, l) == PujasDe(ps, l) /= {}
MaxCantidad(ps, l) == MaxDe({ps[p].cantidad : p \in PujasDe(ps, l)})

\* "if puja_mas_alta": None and Decimal('0.00') are both false
MaxVerdadero(ps, l) == HayPujas(ps, l) /\ MaxCantidad(ps, l) /= 0

\* SubastaSerializer.get_precio_actual / SubastaDetailSerializer.get_precio_actual
get_precio_actual(subs, ps, l) ==
    IF MaxVerdadero(ps, l) THEN MaxCantidad(ps, l) ELSE subs[l].precio_inicial

\* ------------------------------------------------------------------- init
Init ==
    /\ now = 0
    /\ subastas = <<>>
    /\ pujas = <<>>
    /\ ratings = <<>>
    /\ nextSubasta = 1
    /\ nextPuja = 1
    /\ nextRating = 1
    /\ resp = NoResp
    /\ procs = [p \in Procs |-> Idle]
    /\ categorias = {}
    /\ comentarios = <<>>
    /\ nextCategoria = 1
    /\ nextComentario = 1
    /\ pujando = [p \in Procs |-> SinPuja]
    /\ leyendo = [p \in Procs |-> SinLectura]

\* time passes between requests
Tick ==
    /\ now < MaxTime
    /\ now' = now + 1
    /\ resp' = NoResp
    /\ UNCHANGED <<db, procs, pujando, leyendo>>

\* ---------------------------------------------------------------- listings
\* SubastaValida without the two checks of the close time
SubastaValidaSinFecha(f, precio, fecha, val, t) ==
    /\ f.categoria \in categorias
    /\ f.titulo /= <<>> /\ f.descripcion /= <<>> /\ f.marca /= <<>>
    /\ precio >= 1
    /\ val >= 100 /\ val <= 500

\* SubastaSerializer.validate and the field validators
SubastaValida(f, precio, fecha, val, t) ==
    /\ f.categoria \in categorias
    /\ f.titulo /= <<>> /\ f.descripcion /= <<>> /\ f.marca /= <<>>
    /\ ~(fecha <= t)
    /\ ~(fecha < t + QuinceDias)
    /\ precio >= 1
    /\ val >= 100 /\ val <= 500

\* POST /subastas/
SubastaCreate(u, f, precio, fecha, val) ==
    /\ nextSubasta <= MaxSubastas
    /\ IF ~is_authenticated(u)
       THEN /\ resp' = Resp("subasta_create", "permiso", 0)
            /\ UNCHANGED db
       ELSE IF ~SubastaValida(f, precio, fecha, val, now)
       THEN /\ resp' = Resp("subasta_create", "validacion", 0)
            /\ UNCHANGED db
       ELSE /\ subastas' = subastas @@ (nextSubasta :>
                  [titulo |-> f.titulo, descripcion |-> f.descripcion,
                   marca |-> f.marca, categoria |-> f.categoria,
                   precio_inicial |-> precio, valoracion |-> val,
                   fecha_cierre |-> fecha, estado |-> Estado(fecha, now),
                   usuario |-> u])
            /\ nextSubasta' = nextSubasta + 1
            /\ resp' = Resp("subasta_create", "ok", nextSubasta)
            /\ UNCHANGED <<pujas, ratings, nextPuja, nextRating, resto>>
    /\ UNCHANGED <<now, procs, pujando, leyendo>>

\* IsOwnerOrAdmin.has_object_permission, for a method that is not safe
IsOwnerOrAdmin(u, s) ==
    s.usuario = u \/ is_staff(u)

\* the field validators of SubastaDetailSerializer (it has no validate())
SubastaDetailValida(s) ==
    /\ s.categoria \in categorias
    /\ s.precio_inicial >= 1
    /\ s.valoracion >= 100 /\ s.valoracion <= 500

\* what a PUT/PATCH may carry: one field changed at a time
ConPrecio(s)     == {[s EXCEPT !.precio_inicial = x] : x \in PreciosEntrada}
ConFecha(s)      == {[s EXCEPT !.fecha_cierre = x] : x \in Fechas}
ConValoracion(s) == {[s EXCEPT !.valoracion = x] : x \in ValoracionEntrada}
ConUsuario(s)    == {[s EXCEPT !.usuario = x] : x \in DuenosEntrada}

\* PUT/PATCH /subastas/<id>/
SubastaUpdate(u, l, s) ==
    /\ l \in DOMAIN subastas
    /\ IF ~IsOwnerOrAdmin(u, subastas[l])
       THEN /\ resp' = Resp("subasta_update", "permiso", l)
            /\ UNCHANGED db
       ELSE LET vistas == ActualizarEstado(subastas, l, now) IN
            IF ~SubastaDetailValida(s)
            THEN /\ subastas' = vistas
                 /\ resp' = Resp("subasta_update", "validacion", l)
                 /\ UNCHANGED <<pujas, ratings, nextSubasta, nextPuja, nextRating, resto>>
            ELSE /\ subastas' = [vistas EXCEPT ![l] =
                        [titulo |-> s.titulo, descripcion |-> s.descripcion,
                         marca |-> s.marca, categoria |-> s.categoria,
                         precio_inicial |-> s.precio_inicial,
                         valoracion |-> s.valoracion,
                         fecha_cierre |-> s.fecha_cierre,
                         estado |-> Estado(s.fecha_cierre, now),
                         usuario |-> s.usuario]]
                 /\ resp' = Resp("subasta_update", "ok", l)
                 /\ UNCHANGED <<pujas, ratings, nextSubasta, nextPuja, nextRating, resto>>
    /\ UNCHANGED <<now, procs, pujando, leyendo>>

\* SinSubasta with the rows of the listing left behind
SinSubastaSinCascada(rows, l) ==
    rows

\* on_delete=CASCADE of Puja.subasta, Rating.subasta and Comentario.subasta
SinSubasta(rows, l) ==
    [x \in {y \in DOMAIN rows : rows[y].subasta /= l} |-> rows[x]]

Quitar(rows, id) ==
    [x \in DOMAIN rows \ {id} |-> rows[x]]

\* DELETE /subastas/<id>/
SubastaDestroy(u, l) ==
    /\ l \in DOMAIN subastas
    /\ IF ~IsOwnerOrAdmin(u, subastas[l])
       THEN /\ resp' = Resp("subasta_destroy", "permiso", l)
            /\ UNCHANGED db
       ELSE /\ subastas' = Quitar(subastas, l)
            /\ pujas' = SinSubasta(pujas, l)
            /\ ratings' = SinSubasta(ratings, l)
            /\ comentarios' = SinSubasta(comentarios, l)
            /\ resp' = Resp("subasta_destroy", "ok", l)
            /\ UNCHANGED <<categorias, nextSubasta, nextPuja, nextRating,
                           nextCategoria, nextComentario>>
    /\ UNCHANGED <<now, procs, pujando, leyendo>>

\* -------------------------------------------------------------- categories
\* IsAdminOrReadOnly.has_permission, for a method that is not safe
IsAdminOrReadOnly(u) == is_staff(u)

\* POST /subastas/categorias/
CategoriaCreate(u) ==
    /\ nextCategoria <= MaxCategorias
    /\ IF ~IsAdminOrReadOnly(u)
       THEN /\ resp' = Resp("categoria_create", "permiso", 0)
            /\ UNCHANGED db
       ELSE /\ categorias' = categorias \cup {nextCategoria}
            /\ nextCategoria' = nextCategoria + 1
            /\ resp' = Resp("categoria_create", "ok", 0)
            /\ UNCHANGED <<subastas, pujas, ratings, comentarios, nextSubasta,
                           nextPuja, nextRating, nextComentario>>
    /\ UNCHANGED <<now, procs, pujando, leyendo>>

\* on_delete=CASCADE of Subasta.categoria
SubastasDe(subs, c) == {l \in DOMAIN subs : subs[l].categoria = c}
SinCategoria(subs, c) ==
    [x \in DOMAIN subs \ SubastasDe(subs, c) |-> subs[x]]
\* the rows whose listing is among those deleted
SinSubastas(rows, L) ==
    [x \in {y \in DOMAIN rows : rows[y].subasta \notin L} |-> rows[x]]

\* DELETE /subasta/categoria/<id>/
CategoriaDestroy(u, c) ==
    /\ c \in categorias
    /\ IF ~IsAdminOrReadOnly(u)
       THEN /\ resp' = Resp("categoria_destroy", "permiso", 0)
            /\ UNCHANGED db
       ELSE /\ categorias' = categorias \ {c}
            /\ subastas' = SinCategoria(subastas, c)
            /\ pujas' = SinSubastas(pujas, SubastasDe(subastas, c))
            /\ ratings' = SinSubastas(ratings, SubastasDe(subastas, c))
            /\ comentarios' = SinSubastas(comentarios, SubastasDe(subastas, c))
            /\ resp' = Resp("categoria_destroy", "ok", 0)
            /\ UNCHANGED <<nextSubasta, nextPuja, nextRating, nextCategoria, nextComentario>>
    /\ UNCHANGED <<now, procs, pujando, leyendo>>

\* ---------------------------------------------------------------- comments
\* POST /subastas/<id>/comentarios/
ComentarioCreate(u, l) ==
    /\ l \in DOMAIN subastas
    /\ IF ~is_authenticated(u)
       THEN /\ resp' = Resp("comentario_create", "permiso", l)
            /\ UNCHANGED db
       ELSE /\ nextComentario <= MaxComentarios
            /\ comentarios' = comentarios @@ (nextComentario :>
                  [subasta |-> l, usuario |-> u])
            /\ nextComentario' = nextComentario + 1
            /\ resp' = Resp("comentario_create", "ok", l)
            /\ UNCHANGED <<subastas, pujas, ratings, categorias, nextSubasta,
                           nextPuja, nextRating, nextCategoria>>
    /\ UNCHANGED <<now, procs, pujando, leyendo>>

\* IsComentarioOwnerOrAdmin.has_object_permission, for a method that is not safe
IsComentarioOwnerOrAdmin(u, comentario) ==
    comentario.usuario = u \/ is_staff(u)

\* DELETE /subastas/<id>/comentarios/<id_comentario>/
ComentarioDestroy(u, l, k) ==
    /\ l \in DOMAIN subastas
    /\ k \in DOMAIN comentarios
    /\ comentarios[k].subasta = l
    /\ IF ~IsComentarioOwnerOrAdmin(u, comentarios[k])
       THEN /\ resp' = Resp("comentario_destroy", "permiso", l)
            /\ UNCHANGED db
       ELSE /\ comentarios' = Quitar(comentarios, k)
            /\ resp' = Resp("comentario_destroy", "ok", l)
            /\ UNCHANGED <<subastas, pujas, ratings, categorias, nextSubasta,
                           nextPuja, nextRating, nextCategoria, nextComentario>>
    /\ UNCHANGED <<now, procs, pujando, leyendo>>

\* ----------------------------------------------------------------- ratings
RatingsDe(rs, l) == {r \in DOMAIN rs : rs[r].subasta = l}

RECURSIVE SumaValores(_, _)
SumaValores(rs, S) ==
    IF S = {} THEN 0
    ELSE LET r == CHOOSE x \in S : TRUE
         IN  rs[r].valor + SumaValores(rs, S \ {r})

\* round(sum/n, 2) in hundredths: to the nearest, a tie to the even one
Round2(suma, n) ==
    LET q == (100 * suma) \div n
        r == (100 * suma) % n
    IN  IF 2 * r < n THEN q
        ELSE IF 2 * r > n THEN q + 1
        ELSE IF q % 2 = 0 THEN q ELSE q + 1

\* get_valoracion_media falling back to the default with no rating left
get_valoracion_media_defecto(valoracion, rs, l) ==
    IF RatingsDe(rs, l) /= {}
    THEN Round2(SumaValores(rs, RatingsDe(rs, l)), Cardinality(RatingsDe(rs, l)))
    ELSE 100

\* Subasta.get_valoracion_media, on the loaded object (its valoracion as
\* read) and the ratings now stored
get_valoracion_media(valoracion, rs, l) ==
    IF RatingsDe(rs, l) /= {}
    THEN Round2(SumaValores(rs, RatingsDe(rs, l)), Cardinality(RatingsDe(rs, l)))
    ELSE IF valoracion /= 0 THEN valoracion ELSE 100

\* --------------------------------------------------------- listing reads
\* what SubastaSerializer shows of a row
Ficha(subs, ps, rs, l) ==
    [id |-> l, estado |-> subs[l].estado,
     precio_actual |-> get_precio_actual(subs, ps, l),
     valoracion |-> subs[l].valoracion,
     valoracion_media |-> get_valoracion_media(subs[l].valoracion, rs, l)]

\* GET /subastas/<id>/
SubastaRetrieve(l) ==
    /\ l \in DOMAIN subastas
    /\ subastas' = ActualizarEstado(subastas, l, now)
    /\ resp' = Resp("subasta_detail", "ok", l)
    /\ UNCHANGED <<now, pujas, ratings, nextSubasta, nextPuja, nextRating, procs, resto, pujando, leyendo>>

\* GET /subastas/ without query parameters
SubastaList ==
    /\ resp' = Resp("subasta_list", "ok", 0)
    /\ UNCHANGED <<now, db, procs, pujando, leyendo>>

\* ---------------------------------------------- GET /subastas/?search=...
\* a query parameter: given or not, and its value
NoSearch == [dado |-> FALSE, v |-> <<>>]
NoEstado == [dado |-> FALSE, v |-> ""]
Dado(x)  == [dado |-> TRUE, v |-> x]
\* a parameter the view hands to Decimal(): absent, the text of a number (in
\* cents or hundredths), or a text that is no number ('abc')
NoPrecio   == [dado |-> FALSE, num |-> TRUE, v |-> 0]
Numero(c)  == [dado |-> TRUE, num |-> TRUE, v |-> c]
NoNumerico == [dado |-> TRUE, num |-> FALSE, v |-> 0]

Busquedas     == {<<>>, <<"a", "b">>, <<"a", "B", "A">>, <<"b", "a", "b">>, <<"b", "b", "b">>}
PreciosFiltro == {NoPrecio} \cup {Numero(c) : c \in 0..MaxCents}
RatingsFiltro == {Numero(-100), Numero(0), Numero(100), NoNumerico}
SinFiltro ==
    [search |-> NoSearch, estado |-> NoEstado, rating_min |-> NoPrecio,
     precio_min |-> NoPrecio, precio_max |-> NoPrecio]
Consultas ==
    {[SinFiltro EXCEPT !.search = Dado(t)] : t \in Busquedas}
    \cup {[SinFiltro EXCEPT !.precio_min = a, !.precio_max = b] : a, b \in PreciosFiltro}
    \cup {[SinFiltro EXCEPT !.estado = Dado(e)] : e \in {"abierta", "cerrada"}}
    \cup {[SinFiltro EXCEPT !.estado = Dado("abierta"), !.precio_min = Numero(2)],
          [SinFiltro EXCEPT !.search = Dado(<<"b", "a", "b">>), !.precio_max = Numero(2)]}
    \cup {[SinFiltro EXCEPT !.rating_min = r] : r \in RatingsFiltro}
    \cup {[SinFiltro EXCEPT !.precio_min = NoNumerico],
          [SinFiltro EXCEPT !.precio_max = NoNumerico],
          [SinFiltro EXCEPT !.precio_min = Numero(-1)],
          [SinFiltro EXCEPT !.rating_min = Numero(0), !.precio_min = Numero(0)]}

\* str.lower() on the letters of the model
Minuscula(c) == IF c = "A" THEN "a" ELSE IF c = "B" THEN "b" ELSE c

\* field__icontains=t
icontains(texto, t) ==
    \E i \in 0..(Len(texto) - Len(t)) :
       \A j \in 1..Len(t) : Minuscula(texto[i + j]) = Minuscula(t[j])

\* "if search": None and '' are both false
HaySearch(q) == q.search.dado /\ q.search.v /= <<>>

\* Decimal(text) raises decimal.InvalidOperation, an ArithmeticError that
\* "except (ValueError, TypeError)" lets through
InvalidOperation(x) == x.dado /\ ~x.num

\* the errors get_queryset ends with, in its order: the ValidationError it
\* raises (named by its key) or the exception it does not handle
ListaMotivo(q) ==
    IF HaySearch(q) /\ Len(q.search.v) < 3 THEN "search"
    ELSE IF InvalidOperation(q.rating_min) THEN "InvalidOperation"
    ELSE IF InvalidOperation(q.precio_min) THEN "InvalidOperation"
    ELSE IF q.precio_min.dado /\ q.precio_min.v <= 0 THEN "precio_min"
    ELSE IF InvalidOperation(q.precio_max) THEN "InvalidOperation"
    ELSE IF q.precio_max.dado /\ q.precio_max.v <= 0 THEN "precio_max"
    ELSE IF q.precio_min.dado /\ q.precio_max.dado
            /\ q.precio_min.v > q.precio_max.v THEN "price_range"
    ELSE "ok"

\* filter(Q(titulo__icontains) | Q(descripcion__icontains) | Q(marca__icontains))
PorSearch(subs, q) ==
    IF HaySearch(q)
    THEN {l \in DOMAIN subs :
            \/ icontains(subs[l].titulo, q.search.v)
            \/ icontains(subs[l].descripcion, q.search.v)
            \/ icontains(subs[l].marca, q.search.v)}
    ELSE DOMAIN subs

\* filter(estado=estado): the stored column
PorEstado(subs, S, q) ==
    IF q.estado.dado THEN {l \in S : subs[l].estado = q.estado.v} ELSE S

\* filter(valoracion__gt=rating_min): the stored column, any number taken
PorRating(subs, S, q) ==
    IF q.rating_min.dado THEN {l \in S : subs[l].valoracion > q.rating_min.v} ELSE S

\* precio_actual = puja_mas_alta if puja_mas_alta else subasta.precio_inicial
precio_actual(subs, ps, l) ==
    IF MaxVerdadero(ps, l) THEN MaxCantidad(ps, l) ELSE subs[l].precio_inicial

\* the loop over the queryset that keeps the ids within the price range
PorPrecio(subs, ps, S, q) ==
    IF q.precio_min.dado \/ q.precio_max.dado
    THEN {l \in S :
            /\ ~(q.precio_min.dado /\ precio_actual(subs, ps, l) < q.precio_min.v)
            /\ ~(q.precio_max.dado /\ precio_actual(subs, ps, l) > q.precio_max.v)}
    ELSE S

\* SubastaListCreate.get_queryset
get_queryset(subs, ps, q) ==
    PorPrecio(subs, ps,
        PorRating(subs, PorEstado(subs, PorSearch(subs, q), q), q), q)

\* GET /subastas/ with query parameters: what is returned is kept in resp
SubastaListFiltro(q) ==
    /\ resp' = [op |-> "subasta_filtro", ok |-> ListaMotivo(q) = "ok",
                motivo |-> ListaMotivo(q), sub |-> 0, q |-> q,
                ids |-> IF ListaMotivo(q) = "ok"
                        THEN get_queryset(subastas, pujas, q) ELSE {}]
    /\ UNCHANGED <<now, db, procs, pujando, leyendo>>

\* GET /misSubastas/
UserSubastaList(u) ==
    /\ IF ~is_authenticated(u)
       THEN resp' = Resp("mis_subastas", "permiso", 0)
       ELSE resp' = Resp("mis_subastas", "ok", 0)
    /\ UNCHANGED <<now, db, procs, pujando, leyendo>>

\* -------------------------------------------------------------------- bids
\* PujaSerializer.validate on a POST: the amount the field parsed must be
\* positive (the view puts no 'subasta' in the serializer context, so the
\* comparison with the highest bid is not made there)
PujaSerializerValida(cantidad) ==
    ~(cantidad <= 0)

\* POST /subastas/<id>/pujas/: permission, serializer, then perform_create.
\* "ok", or why the request is rejected
PujaCreateMotivo(u, l, dato) ==
    IF ~is_authenticated(u) THEN "permiso"
    ELSE IF ~PujaSerializerValida(DecimalDeCampo(dato)) THEN "cantidad"
    ELSE IF SubastaCerrada(subastas[l], now) THEN "cerrada"
    ELSE LET nueva_cantidad == DecimalDeDato(dato) IN
         IF DecMenorIgual(nueva_cantidad, 0) THEN "no_positiva"
         ELSE IF MaxVerdadero(pujas, l)
                 /\ DecMenorIgual(nueva_cantidad, MaxCantidad(pujas, l))
         THEN "no_supera_puja"
         ELSE IF ~MaxVerdadero(pujas, l)
                 /\ DecMenorIgual(nueva_cantidad, subastas[l].precio_inicial)
         THEN "no_supera_inicial"
         ELSE "ok"

PujaCreate(u, l, dato) ==
    /\ l \in DOMAIN subastas
    /\ LET motivo == PujaCreateMotivo(u, l, dato) IN
       /\ resp' = Resp("puja_create", motivo, l)
       /\ IF motivo = "ok"
          THEN /\ nextPuja <= MaxPujas
               /\ pujas' = pujas @@ (nextPuja :>
                     [subasta |-> l, cantidad |-> DecimalDeCampo(dato), pujador |-> u])
               /\ nextPuja' = nextPuja + 1
               /\ UNCHANGED <<subastas, ratings, nextSubasta, nextRating, resto>>
          ELSE UNCHANGED db
    /\ UNCHANGED <<now, procs, pujando, leyendo>>

\* GET /subastas/<id>/pujas/
PujaList(l) ==
    /\ l \in DOMAIN subastas
    /\ subastas' = ActualizarEstado(subastas, l, now)
    /\ resp' = Resp("puja_list", "ok", l)
    /\ UNCHANGED <<now, pujas, ratings, nextSubasta, nextPuja, nextRating, procs, resto, pujando, leyendo>>

\* GET /subastas/<id>/pujas/<idPuja>/: the bid with its listing nested
PujaRetrieve(l, p) ==
    /\ l \in DOMAIN subastas
    /\ p \in PujasDe(pujas, l)
    /\ subastas' = ActualizarEstado(subastas, l, now)
    /\ resp' = Resp("puja_detail", "ok", l)
    /\ UNCHANGED <<now, pujas, ratings, nextSubasta, nextPuja, nextRating, procs, resto, pujando, leyendo>>

\* IsPujaOwnerOrAdmin.has_object_permission, for a method that is not safe
IsPujaOwnerOrAdmin(u, puja) ==
    puja.pujador = u \/ is_staff(u)

\* PujaDetailValida holding the amount to the rule of a new bid: above
\* every other bid of the listing
PujaDetailValidaSobreOtras(ps, l, p, cantidad) ==
    \A x \in PujasDe(ps, l) \ {p} : ps[x].cantidad < cantidad

\* PujaDetailSerializer.is_valid: the serializer has no validate(), the
\* amount is any decimal of the field
PujaDetailValida(ps, l, p, cantidad) ==
    cantidad \in Int

\* PUT/PATCH /subastas/<id>/pujas/<idPuja>/
PujaUpdate(u, l, p, cantidad) ==
    /\ l \in DOMAIN subastas
    /\ p \in PujasDe(pujas, l)
    /\ IF ~IsPujaOwnerOrAdmin(u, pujas[p])
       THEN /\ resp' = Resp("puja_update", "permiso", l)
            /\ UNCHANGED db
       ELSE /\ subastas' = ActualizarEstado(subastas, l, now)
            /\ IF ~PujaDetailValida(pujas, l, p, cantidad)
               THEN /\ resp' = Resp("puja_update", "validacion", l)
                    /\ UNCHANGED pujas
               ELSE IF SubastaCerrada(subastas'[l], now)
               THEN /\ resp' = Resp("puja_update", "cerrada", l)
                    /\ UNCHANGED pujas
               ELSE /\ resp' = Resp("puja_update", "ok", l)
                    /\ pujas' = [pujas EXCEPT ![p].cantidad = cantidad]
            /\ UNCHANGED <<ratings, nextSubasta, nextPuja, nextRating, resto>>
    /\ UNCHANGED <<now, procs, pujando, leyendo>>

\* DELETE /subastas/<id>/pujas/<idPuja>/
PujaDestroy(u, l, p) ==
    /\ l \in DOMAIN subastas
    /\ p \in PujasDe(pujas, l)
    /\ IF ~IsPujaOwnerOrAdmin(u, pujas[p])
       THEN /\ resp' = Resp("puja_destroy", "permiso", l)
            /\ UNCHANGED db
       ELSE /\ subastas' = ActualizarEstado(subastas, l, now)
            /\ IF SubastaCerrada(subastas'[l], now)
               THEN /\ resp' = Resp("puja_destroy", "cerrada", l)
                    /\ UNCHANGED pujas
               ELSE /\ resp' = Resp("puja_destroy", "ok", l)
                    /\ pujas' = Quitar(pujas, p)
            /\ UNCHANGED <<ratings, nextSubasta, nextPuja, nextRating, resto>>
    /\ UNCHANGED <<now, procs, pujando, leyendo>>

\* ---------------------------------------------------------- rating writes
\* RatingSerializer.validate_valor and the field's validators
RatingValido(valor) ==
    ~(valor < 1 \/ valor > 5)

\* existing_rating with the lookup never finding a row
existing_rating_ausente(rs, u, l) ==
    FALSE

\* perform_create: Rating.objects.filter(subasta, usuario).first()
existing_rating(rs, u, l) ==
    \E r \in DOMAIN rs : rs[r].subasta = l /\ rs[r].usuario = u

\* UniqueTogether with the constraint left off the table
UniqueTogetherSinRestriccion(rs, u, l) ==
    TRUE

\* Rating.Meta.unique_together: whether the table takes a row for (u, l)
UniqueTogether(rs, u, l) ==
    ~\E r \in DOMAIN rs : rs[r].usuario = u /\ rs[r].subasta = l

\* Subasta.objects.filter(id=l).update(valoracion=m)
GuardarValoracion(subs, l, m) ==
    IF l \in DOMAIN subs THEN [subs EXCEPT ![l].valoracion = m] ELSE subs

\* POST /subastas/<id>/ratings/: "ok", or why the request is rejected
RatingCreateMotivo(u, l, valor) ==
    IF ~is_authenticated(u) THEN "permiso"
    ELSE IF ~RatingValido(valor) THEN "valor"
    ELSE IF existing_rating(ratings, u, l) THEN "ya_valorada"
    ELSE IF ~UniqueTogether(ratings, u, l) THEN "integridad"
    ELSE "ok"

RatingCreate(u, l, valor) ==
    /\ l \in DOMAIN subastas
    /\ LET motivo == RatingCreateMotivo(u, l, valor) IN
       /\ resp' = Resp("rating_create", motivo, l)
       /\ IF motivo = "ok"
          THEN /\ nextRating <= MaxRatings
               /\ ratings' = ratings @@ (nextRating :>
                     [valor |-> valor, usuario |-> u, subasta |-> l])
               /\ nextRating' = nextRating + 1
               /\ subastas' = GuardarValoracion(subastas, l,
                     get_valoracion_media(subastas[l].valoracion, ratings', l))
               /\ UNCHANGED <<pujas, nextSubasta, nextPuja, resto>>
          ELSE UNCHANGED db
    /\ UNCHANGED <<now, procs, pujando, leyendo>>

\* PUT/PATCH /subastas/<id>/ratings/<id_rating>/ (IsAuthenticated only)
RatingUpdate(u, l, r, valor) ==
    /\ l \in DOMAIN subastas
    /\ r \in RatingsDe(ratings, l)
    /\ LET motivo == IF ~is_authenticated(u) THEN "permiso"
                     ELSE IF ~RatingValido(valor) THEN "valor" ELSE "ok" IN
       /\ resp' = Resp("rating_update", motivo, l)
       /\ IF motivo = "ok"
          THEN /\ ratings' = [ratings EXCEPT ![r].valor = valor]
               /\ subastas' = GuardarValoracion(
                     GuardarValoracion(subastas, l,
                        get_valoracion_media(subastas[l].valoracion, ratings', l)),
                     l, get_valoracion_media(subastas[l].valoracion, ratings', l))
               /\ UNCHANGED <<pujas, nextSubasta, nextPuja, nextRating, resto>>
          ELSE UNCHANGED db
    /\ UNCHANGED <<now, procs, pujando, leyendo>>

\* DELETE /subastas/<id>/ratings/<id_rating>/
RatingDestroy(u, l, r) ==
    /\ l \in DOMAIN subastas
    /\ r \in RatingsDe(ratings, l)
    /\ LET motivo == IF ~is_authenticated(u) THEN "permiso"
                     ELSE IF ratings[r].usuario /= u /\ ~is_staff(u) THEN "no_propia"
                     ELSE "ok" IN
       /\ resp' = Resp("rating_destroy", motivo, l)
       /\ IF motivo = "ok"
          THEN /\ ratings' = Quitar(ratings, r)
               /\ subastas' = GuardarValoracion(subastas, l,
                     get_valoracion_media(subastas[l].valoracion, ratings', l))
               /\ UNCHANGED <<pujas, nextSubasta, nextPuja, nextRating, resto>>
          ELSE UNCHANGED db
    /\ UNCHANGED <<now, procs, pujando, leyendo>>

\* DELETE /subastas/<id>/mi-rating/
UserRatingDelete(u, l) ==
    /\ l \in DOMAIN subastas
    /\ LET motivo == IF ~is_authenticated(u) THEN "permiso"
                     ELSE IF ~existing_rating(ratings, u, l) THEN "no_existe"
                     ELSE "ok" IN
       /\ resp' = Resp("mi_rating_delete", motivo, l)
       /\ IF motivo = "ok"
          THEN /\ ratings' = Quitar(ratings,
                     CHOOSE r \in DOMAIN ratings :
                        ratings[r].subasta = l /\ ratings[r].usuario = u)
               /\ subastas' = GuardarValoracion(subastas, l,
                     get_valoracion_media(subastas[l].valoracion, ratings', l))
               /\ UNCHANGED <<pujas, nextSubasta, nextPuja, nextRating, resto>>
          ELSE UNCHANGED db
    /\ UNCHANGED <<now, procs, pujando, leyendo>>

\* --------------------------------------- rating creation, step by step
\* RatingListCreate.perform_create as the statements a request runs, so that
\* two requests interleave.  A process keeps what its request has read.
Recibida(u, l, valor, leida) ==
    [pc |-> "check", usuario |-> u, sub |-> l, valor |-> valor,
     valoracion |-> leida, media |-> 0, fin |-> "-"]

Avanza(p, pc) == [procs EXCEPT ![p].pc = pc]
Termina(p, fin) ==
    [procs EXCEPT ![p] = [Idle EXCEPT !.pc = "done", !.fin = fin,
                            !.usuario = procs[p].usuario, !.sub = procs[p].sub]]

\* permission, serializer, and the listing loaded (get_object_or_404)
RcRecibir(p, u, l, valor) ==
    /\ procs[p].pc \in {"idle", "done"}
    /\ l \in DOMAIN subastas
    /\ is_authenticated(u) /\ RatingValido(valor)
    /\ procs' = [procs EXCEPT ![p] = Recibida(u, l, valor, subastas[l].valoracion)]
    /\ UNCHANGED <<now, db, resp, pujando, leyendo>>

\* existing_rating = Rating.objects.filter(...).first(); if existing_rating: raise
RcComprobar(p) ==
    /\ procs[p].pc = "check"
    /\ procs' = IF existing_rating(ratings, procs[p].usuario, procs[p].sub)
                THEN Termina(p, "ya_valorada")
                ELSE Avanza(p, "save")
    /\ UNCHANGED <<now, db, resp, pujando, leyendo>>

\* serializer.save(subasta=subasta, usuario=request.user): the INSERT, which
\* the table refuses when it breaks unique_together
RcGuardar(p) ==
    /\ procs[p].pc = "save"
    /\ IF UniqueTogether(ratings, procs[p].usuario, procs[p].sub)
       THEN /\ nextRating <= MaxRatings
            /\ ratings' = ratings @@ (nextRating :>
                  [valor |-> procs[p].valor, usuario |-> procs[p].usuario,
                   subasta |-> procs[p].sub])
            /\ nextRating' = nextRating + 1
            /\ procs' = Avanza(p, "media")
       ELSE /\ procs' = Termina(p, "integridad")
            /\ UNCHANGED <<ratings, nextRating>>
    /\ UNCHANGED <<now, subastas, pujas, nextSubasta, nextPuja, resp, resto, pujando, leyendo>>

\* valoracion_media = subasta.get_valoracion_media()
RcMedia(p) ==
    /\ procs[p].pc = "media"
    /\ procs' = [procs EXCEPT ![p].pc = "update",
                   ![p].media = get_valoracion_media(procs[p].valoracion, ratings, procs[p].sub)]
    /\ UNCHANGED <<now, db, resp, pujando, leyendo>>

\* Subasta.objects.filter(id=subasta.id).update(valoracion=valoracion_media)
RcActualizar(p) ==
    /\ procs[p].pc = "update"
    /\ subastas' = GuardarValoracion(subastas, procs[p].sub, procs[p].media)
    /\ procs' = Termina(p, "ok")
    /\ UNCHANGED <<now, pujas, ratings, nextSubasta, nextPuja, nextRating, resp, resto, pujando, leyendo>>

\* ----------------------------------------- bid creation, step by step
\* PujaListCreate.perform_create as the statements a request runs, so that
\* two requests interleave.  A process keeps what its request has read.
PujaTermina(p, fin) ==
    [pujando EXCEPT ![p].pc = "done", ![p].fin = fin]

\* permission, serializer, the listing loaded and its open-state check
PcRecibir(p, u, l, dato) ==
    /\ pujando[p].pc \in {"idle", "done"}
    /\ l \in DOMAIN subastas
    /\ is_authenticated(u) /\ PujaSerializerValida(DecimalDeCampo(dato))
    /\ pujando' = [pujando EXCEPT ![p] =
          [pc |-> IF SubastaCerrada(subastas[l], now) THEN "done" ELSE "leer",
           usuario |-> u, sub |-> l, cents |-> dato.cents, forma |-> dato.forma,
           precio |-> subastas[l].precio_inicial, hay |-> FALSE, max |-> 0,
           fin |-> IF SubastaCerrada(subastas[l], now) THEN "cerrada" ELSE "-"]]
    /\ UNCHANGED <<now, db, resp, procs, leyendo>>

\* puja_mas_alta = Puja.objects.filter(subasta=subasta).aggregate(Max('cantidad'))
PcLeer(p) ==
    /\ pujando[p].pc = "leer"
    /\ pujando' = [pujando EXCEPT ![p].pc = "save",
                     ![p].hay = HayPujas(pujas, pujando[p].sub),
                     ![p].max = IF HayPujas(pujas, pujando[p].sub)
                                THEN MaxCantidad(pujas, pujando[p].sub) ELSE 0]
    /\ UNCHANGED <<now, db, resp, procs, leyendo>>

\* the comparisons on what was read: "ok", or why the request is rejected
PcMotivo(r) ==
    LET nueva_cantidad == DecimalDeDato([cents |-> r.cents, forma |-> r.forma])
        puja_mas_alta == r.hay /\ r.max /= 0
    IN  IF DecMenorIgual(nueva_cantidad, 0) THEN "no_positiva"
        ELSE IF puja_mas_alta /\ DecMenorIgual(nueva_cantidad, r.max) THEN "no_supera_puja"
        ELSE IF ~puja_mas_alta /\ DecMenorIgual(nueva_cantidad, r.precio)
        THEN "no_supera_inicial"
        ELSE "ok"

\* the comparisons, then serializer.save(subasta=subasta, pujador=request.user):
\* the INSERT, which the table takes whatever the other rows are; the
\* listing may have been deleted meanwhile (IntegrityError on the key)
PcGuardar(p) ==
    /\ pujando[p].pc = "save"
    /\ IF PcMotivo(pujando[p]) /= "ok"
       THEN /\ pujando' = PujaTermina(p, PcMotivo(pujando[p]))
            /\ UNCHANGED <<pujas, nextPuja>>
       ELSE IF pujando[p].sub \notin DOMAIN subastas
       THEN /\ pujando' = PujaTermina(p, "integridad")
            /\ UNCHANGED <<pujas, nextPuja>>
       ELSE /\ nextPuja <= MaxPujas
            /\ pujas' = pujas @@ (nextPuja :>
                  [subasta |-> pujando[p].sub, cantidad |-> pujando[p].cents,
                   pujador |-> pujando[p].usuario])
            /\ nextPuja' = nextPuja + 1
            /\ pujando' = PujaTermina(p, "ok")
    /\ UNCHANGED <<now, subastas, ratings, nextSubasta, nextRating, resto, resp, procs, leyendo>>

\* ------------------------------------- the read of a listing, step by step
\* obj = super().get_object(): the row as it is read
LeLeer(p, l) ==
    /\ leyendo[p].pc \in {"idle", "done"}
    /\ l \in DOMAIN subastas
    /\ leyendo' = [leyendo EXCEPT ![p] =
          [pc |-> "save", sub |-> l, fecha_cierre |-> subastas[l].fecha_cierre,
           estado |-> subastas[l].estado]]
    /\ UNCHANGED <<now, db, resp, procs, pujando>>

\* the comparison on the object read and obj.save(update_fields=['estado']):
\* Subasta.save computes estado from the close time of the object, and the
\* UPDATE writes that column alone, whatever the row holds by now
LeGuardar(p) ==
    /\ leyendo[p].pc = "save"
    /\ leyendo' = [leyendo EXCEPT ![p].pc = "done"]
    /\ IF /\ leyendo[p].fecha_cierre <= now /\ leyendo[p].estado = "abierta"
          /\ leyendo[p].sub \in DOMAIN subastas
       THEN subastas' = [subastas EXCEPT ![leyendo[p].sub].estado =
                            Estado(leyendo[p].fecha_cierre, now)]
       ELSE UNCHANGED subastas
    /\ UNCHANGED <<now, pujas, ratings, nextSubasta, nextPuja, nextRating, resto,
                   resp, procs, pujando>>

\* ------------------------------------------------------------------- next
\* The bid handlers read and write subastas and pujas only, the rating
\* handlers subastas and ratings only.  NextPujas is every handler that
\* touches listings and bids, NextRatings every handler that touches
\* listings and ratings; Next is all of them.
Lecturas ==
    \/ \E l \in DOMAIN subastas : SubastaRetrieve(l)
    \/ SubastaList
    \/ \E u \in Callers : UserSubastaList(u)

NextPujas ==
    \/ Tick
    \/ \E u \in {"admin", "ana"} : CategoriaCreate(u)
    \/ \E u \in {"ana", Anon}, precio \in PreciosEntrada, fecha \in Fechas :
          SubastaCreate(u, FichaSimple, precio, fecha, 100)
    \/ \E u \in Callers, l \in DOMAIN subastas :
          \E s \in ConPrecio(subastas[l]) \cup ConFecha(subastas[l])
                   \cup ConUsuario(subastas[l]) : SubastaUpdate(u, l, s)
    \/ \E u \in Callers, l \in DOMAIN subastas : SubastaDestroy(u, l)
    \/ Lecturas
    \/ \E u \in Pujadores, l \in DOMAIN subastas, dato \in Datos : PujaCreate(u, l, dato)
    \/ \E l \in DOMAIN subastas : PujaList(l)
    \/ \E l \in DOMAIN subastas, p \in DOMAIN pujas : PujaRetrieve(l, p)
    \/ \E u \in Callers, l \in DOMAIN subastas, p \in DOMAIN pujas, c \in Cantidades :
          PujaUpdate(u, l, p, c)
    \/ \E u \in Callers, l \in DOMAIN subastas, p \in DOMAIN pujas : PujaDestroy(u, l, p)

NextRatings ==
    \/ CategoriaCreate("admin")
    \/ \E u \in {"ana", Anon}, val \in ValoracionEntrada :
          SubastaCreate(u, FichaSimple, 1, now + QuinceDias, val)
    \/ \E u \in Callers, l \in DOMAIN subastas :
          \E s \in ConValoracion(subastas[l]) : SubastaUpdate(u, l, s)
    \/ \E u \in Callers, l \in DOMAIN subastas : SubastaDestroy(u, l)
    \/ \E l \in DOMAIN subastas : SubastaRetrieve(l)
    \/ \E u \in Callers, l \in DOMAIN subastas, v \in ValoresEntrada : RatingCreate(u, l, v)
    \/ \E u \in Callers, l \in DOMAIN subastas, r \in DOMAIN ratings, v \in ValoresEntrada :
          RatingUpdate(u, l, r, v)
    \/ \E u \in Callers, l \in DOMAIN subastas, r \in DOMAIN ratings : RatingDestroy(u, l, r)
    \/ \E u \in Callers, l \in DOMAIN subastas : UserRatingDelete(u, l)

\* requests creating ratings in flight at once, over listings created and
\* ratings deleted one request at a time
NextConc ==
    \/ CategoriaCreate("admin")
    \/ SubastaCreate("ana", FichaSimple, 1, now + QuinceDias, 100)
    \/ \E u \in Valoradores, l \in DOMAIN subastas : UserRatingDelete(u, l)
    \/ \E p \in Procs, u \in Valoradores, l \in DOMAIN subastas, v \in ValoresEntrada :
          RcRecibir(p, u, l, v)
    \/ \E p \in Procs : RcComprobar(p)
    \/ \E p \in Procs : RcGuardar(p)
    \/ \E p \in Procs : RcMedia(p)
    \/ \E p \in Procs : RcActualizar(p)

\* the list with its filters, over listings and bids made one request at a
\* time
NextListas ==
    \/ Tick
    \/ CategoriaCreate("admin")
    \/ \E f \in FichasEntrada, precio \in {1, 2}, fecha \in Fechas :
          SubastaCreate("ana", f, precio, fecha, 100)
    \/ \E l \in DOMAIN subastas : SubastaRetrieve(l)
    \/ \E l \in DOMAIN subastas, dato \in Datos : PujaCreate("beto", l, dato)
    \/ \E l \in DOMAIN subastas, p \in DOMAIN pujas, c \in Cantidades :
          PujaUpdate("beto", l, p, c)
    \/ \E q \in Consultas : SubastaListFiltro(q)

\* every table with a foreign key to a listing, and the deletes that cascade
NextCascada ==
    \/ \E u \in {"admin", "ana"} : CategoriaCreate(u)
    \/ \E u \in {"admin", "ana"}, c \in categorias : CategoriaDestroy(u, c)
    \/ SubastaCreate("ana", FichaSimple, 1, now + QuinceDias, 100)
    \/ \E u \in {"ana", "beto"}, l \in DOMAIN subastas : SubastaDestroy(u, l)
    \/ \E l \in DOMAIN subastas, c \in {2, 3} :
          PujaCreate("beto", l, [cents |-> c, forma |-> "texto"])
    \/ \E u \in Valoradores, l \in DOMAIN subastas : RatingCreate(u, l, 4)
    \/ \E u \in {"beto", Anon}, l \in DOMAIN subastas : ComentarioCreate(u, l)
    \/ \E u \in {"ana", "beto"}, l \in DOMAIN subastas, k \in DOMAIN comentarios :
          ComentarioDestroy(u, l, k)

\* requests creating bids in flight at once, their amounts sent as JSON
\* strings
NextPujasConc ==
    \/ CategoriaCreate("admin")
    \/ \E precio \in {1, 2} : SubastaCreate("ana", FichaSimple, precio, now + QuinceDias, 100)
    \/ \E p \in Procs, u \in {"ana", "beto"}, l \in DOMAIN subastas, c \in 1..MaxCents :
          PcRecibir(p, u, l, [cents |-> c, forma |-> "texto"])
    \/ \E p \in Procs : PcLeer(p)
    \/ \E p \in Procs : PcGuardar(p)

Next == NextPujas \/ NextRatings \/ NextListas \/ NextCascada

Spec        == Init /\ [][Next]_vars
SpecPujas   == Init /\ [][NextPujas]_vars
SpecRatings == Init /\ [][NextRatings]_vars
SpecConc    == Init /\ [][NextConc]_vars
SpecListas  == Init /\ [][NextListas]_vars
SpecCascada == Init /\ [][NextCascada]_vars
SpecPujasConc == Init /\ [][NextPujasConc]_vars

\* bids made and changed on a listing whose own fields stay as created
NextPujaUpdate ==
    \/ Tick
    \/ CategoriaCreate("admin")
    \/ \E fecha \in Fechas : SubastaCreate("ana", FichaSimple, 2, fecha, 100)
    \/ \E u \in {"ana", "beto"}, l \in DOMAIN subastas, c \in 1..MaxCents :
          PujaCreate(u, l, [cents |-> c, forma |-> "texto"])
    \/ \E u \in Callers, l \in DOMAIN subastas, p \in DOMAIN pujas, c \in Cantidades :
          PujaUpdate(u, l, p, c)

SpecPujaUpdate == Init /\ [][NextPujaUpdate]_vars

\* reads of a listing in flight while its owner changes its close time
NextLecturasConc ==
    \/ Tick
    \/ CategoriaCreate("admin")
    \/ \E fecha \in Fechas : SubastaCreate("ana", FichaSimple, 1, fecha, 100)
    \/ \E l \in DOMAIN subastas :
          \E s \in ConFecha(subastas[l]) : SubastaUpdate("ana", l, s)
    \/ \E p \in Procs, l \in DOMAIN subastas : LeLeer(p, l)
    \/ \E p \in Procs : LeGuardar(p)

SpecLecturasConc == Init /\ [][NextLecturasConc]_vars
\* ------------------------------------------------------------------ claims
NuevasPujas == DOMAIN pujas' \ DOMAIN pujas

\* C1: every bid a creation request stores has an amount strictly above the
\* amount of every bid the listing already holds (so admitted amounts rise
\* strictly in admission order, and a request at or below the current
\* maximum stores nothing).
C1_AdmittedStrictlyIncreasing ==
    [][\A p \in NuevasPujas :
          \A q \in PujasDe(pujas, pujas'[p].subasta) :
             pujas[q].cantidad < pujas'[p].cantidad]_vars

\* C2: on an open listing with no bids a creation request for exactly the
\* starting price stores nothing and one for more than the starting price is
\* stored; with bids, a request for exactly the highest bid stores nothing.
C2_TieIsRejected ==
    [][/\ \A p \in NuevasPujas :
             LET l == pujas'[p].subasta IN
             IF HayPujas(pujas, l)
             THEN pujas'[p].cantidad /= MaxCantidad(pujas, l)
             ELSE pujas'[p].cantidad /= subastas[l].precio_inicial
       /\ \A l \in DOMAIN subastas, dato \in Datos :
             (/\ PujaCreate("beto", l, dato)
              /\ now < subastas[l].fecha_cierre
              /\ ~HayPujas(pujas, l)
              /\ dato.cents > subastas[l].precio_inicial)
             => NuevasPujas /= {}]_vars

\* C3: a bid creation handled at now >= close time is rejected and leaves
\* the bids as they were, whatever status the row stores.
C3_ClosedListingTakesNoBid ==
    [][(/\ resp'.op = "puja_create"
        /\ resp'.sub \in DOMAIN subastas
        /\ now >= subastas[resp'.sub].fecha_cierre)
       => (~resp'.ok /\ pujas' = pujas)]_vars

\* a bid creation was refused at the very close time while the row still
\* stored 'abierta'
C3_Witness ==
    /\ resp.op = "puja_create" /\ resp.motivo = "cerrada"
    /\ resp.sub \in DOMAIN subastas
    /\ subastas[resp.sub].estado = "abierta"
    /\ subastas[resp.sub].fecha_cierre = now

\* C4: the status Subasta.save writes, and the estado_actual of the detail
\* read, is 'cerrada' exactly when now >= close time and 'abierta' exactly
\* when now < close time.
C4_EffectiveStatus ==
    /\ (resp.op \in {"subasta_create", "subasta_update"} /\ resp.ok
          /\ resp.sub \in DOMAIN subastas)
       => LET s == subastas[resp.sub] IN
          /\ s.estado = "cerrada" <=> now >= s.fecha_cierre
          /\ s.estado = "abierta" <=> now < s.fecha_cierre
    /\ (resp.op = "subasta_detail" /\ resp.sub \in DOMAIN subastas)
       => LET s == subastas[resp.sub] IN
          /\ get_estado_actual(s.fecha_cierre, now) = "cerrada" <=> now >= s.fecha_cierre
          /\ get_estado_actual(s.fecha_cierre, now) = "abierta" <=> now < s.fecha_cierre

\* a save at the very close time wrote 'cerrada'
C4_Witness ==
    /\ resp.op = "subasta_update" /\ resp.ok
    /\ resp.sub \in DOMAIN subastas
    /\ subastas[resp.sub].fecha_cierre = now
    /\ subastas[resp.sub].estado = "cerrada"

\* the listings a read has just returned
Devueltas ==
    IF ~resp.ok THEN {}
    ELSE IF resp.op = "subasta_list" THEN DOMAIN subastas
    ELSE IF resp.op = "mis_subastas"
         THEN {l \in DOMAIN subastas : subastas[l].usuario \in Users}
    ELSE IF resp.op \in {"subasta_detail", "puja_detail"}
         THEN {resp.sub} \cap DOMAIN subastas
    ELSE {}

\* C5: no read that returns a listing reports its status as 'abierta' when
\* its close time is <= now.
C5_NoReadReportsStaleOpen ==
    \A l \in Devueltas :
       Ficha(subastas, pujas, ratings, l).estado = "abierta"
       => subastas[l].fecha_cierre > now

\* C6: there is at most one Rating per (user, listing), also with creation
\* requests of one user on one listing in flight together.
C6_OneRatingPerUserAndListing ==
    \A r1, r2 \in DOMAIN ratings :
       (ratings[r1].usuario = ratings[r2].usuario
          /\ ratings[r1].subasta = ratings[r2].subasta) => r1 = r2

\* two requests of one user on one listing both passed the duplicate check;
\* one stored its row and the table refused the other
C6_Witness ==
    \E p, q \in Procs :
       /\ p /= q
       /\ procs[p].pc = "done" /\ procs[p].fin = "integridad"
       /\ procs[q].pc \in {"media", "update"}
       /\ procs[q].usuario = procs[p].usuario /\ procs[q].sub = procs[p].sub

\* C7: a rating creation by a user who already holds a Rating on the listing
\* is rejected (as a duplicate when the value it carries is well-formed) and
\* changes no Rating and no listing row, the stored mean included.
C7_DuplicateRatingRejected ==
    [][\A u \in Users, l \in DOMAIN subastas, v \in ValoresEntrada :
          (/\ RatingCreate(u, l, v)
           /\ \E r \in DOMAIN ratings :
                 ratings[r].usuario = u /\ ratings[r].subasta = l)
          => /\ ~resp'.ok
             /\ (v \in 1..5 => resp'.motivo = "ya_valorada")
             /\ ratings' = ratings
             /\ subastas' = subastas]_vars

\* a second creation by the same user was refused as a duplicate
C7_Witness ==
    /\ resp.op = "rating_create" /\ resp.motivo = "ya_valorada"
    /\ resp.sub \in DOMAIN subastas
    /\ RatingsDe(ratings, resp.sub) /= {}

\* C8: whenever a listing has a Rating, its stored mean is the mean of its
\* Rating values rounded to 2 decimals (within half a hundredth of it).
C8_StoredMeanIsRoundedMean ==
    \A l \in DOMAIN subastas :
       LET R == RatingsDe(ratings, l)
           n == Cardinality(R)
       IN  R /= {} =>
             2 * Abs(n * subastas[l].valoracion - 100 * SumaValores(ratings, R)) <= n

\* C9: a rating delete (by id or through /mi-rating/) that leaves the listing
\* without Ratings succeeds and leaves the stored mean as it was.
C9_LastRatingDeletedKeepsMean ==
    [][\A u \in Callers, l \in DOMAIN subastas :
          (/\ \/ UserRatingDelete(u, l)
              \/ \E r \in DOMAIN ratings : RatingDestroy(u, l, r)
           /\ ratings' /= ratings
           /\ RatingsDe(ratings', l) = {})
          => /\ resp'.ok
             /\ l \in DOMAIN subastas'
             /\ subastas'[l].valoracion = subastas[l].valoracion]_vars

\* the last Rating of a listing was deleted and the mean it had produced,
\* not the default, is still stored
C9_Witness ==
    /\ resp.op \in {"rating_destroy", "mi_rating_delete"} /\ resp.ok
    /\ resp.sub \in DOMAIN subastas
    /\ RatingsDe(ratings, resp.sub) = {}
    /\ subastas[resp.sub].valoracion \in {400, 500}

\* C10: the current price shown for a listing is the maximum amount of its
\* stored bids when it has one, and its starting price when it has none.
C10_CurrentPriceIsMaxBid ==
    \A l \in DOMAIN subastas :
       get_precio_actual(subastas, pujas, l) =
          IF HayPujas(pujas, l) THEN MaxCantidad(pujas, l)
          ELSE subastas[l].precio_inicial

\* the price the claims call current: the highest bid, the starting price
\* when there is no bid
PrecioVigente(l) ==
    IF HayPujas(pujas, l) THEN MaxCantidad(pujas, l)
    ELSE subastas[l].precio_inicial

\* C11: a list request with precio_min and/or precio_max returns exactly the
\* listings, among those the other filters keep, whose current price (highest
\* bid, or starting price without bids) lies in [precio_min, precio_max],
\* bounds included, and the price filtered on is the price the serializer
\* shows.
C11_PriceFilterOnCurrentPrice ==
    (resp.op = "subasta_filtro" /\ resp.ok
        /\ (resp.q.precio_min.dado \/ resp.q.precio_max.dado))
    => /\ resp.ids =
            {l \in PorRating(subastas,
                        PorEstado(subastas, PorSearch(subastas, resp.q), resp.q),
                        resp.q) :
                /\ resp.q.precio_min.dado => resp.q.precio_min.v <= PrecioVigente(l)
                /\ resp.q.precio_max.dado => PrecioVigente(l) <= resp.q.precio_max.v}
       /\ \A l \in DOMAIN subastas :
             precio_actual(subastas, pujas, l) = get_precio_actual(subastas, pujas, l)
\* C12: an update or a delete of a bid handled at now >= the close time of
\* its listing is rejected, whoever asks, and leaves the bids as they were.
C12_ClosedListingKeepsItsBids ==
    [][(/\ resp'.op \in {"puja_update", "puja_destroy"}
        /\ resp'.sub \in DOMAIN subastas
        /\ now >= subastas[resp'.sub].fecha_cierre)
       => (~resp'.ok /\ pujas' = pujas)]_vars

\* the bidder or an admin was refused the delete of a bid because the
\* listing, open when the bid was made, had closed
C12_Witness ==
    /\ resp.op = "puja_destroy" /\ resp.motivo = "cerrada"
    /\ resp.sub \in DOMAIN subastas
    /\ PujasDe(pujas, resp.sub) /= {}
    /\ now >= subastas[resp.sub].fecha_cierre

\* C13: every Bid, Rating and Comment refers to a listing that exists, and
\* every listing to a category that exists: the delete of a listing or of a
\* category takes the rows that hang from it.
C13_NoOrphans ==
    /\ \A p \in DOMAIN pujas : pujas[p].subasta \in DOMAIN subastas
    /\ \A r \in DOMAIN ratings : ratings[r].subasta \in DOMAIN subastas
    /\ \A k \in DOMAIN comentarios : comentarios[k].subasta \in DOMAIN subastas
    /\ \A l \in DOMAIN subastas : subastas[l].categoria \in categorias

\* a listing that had a bid, a rating and a comment was deleted
C13_Witness ==
    /\ resp.op = "subasta_destroy" /\ resp.ok
    /\ nextPuja > 1 /\ nextRating > 1 /\ nextComentario > 1
    /\ subastas = <<>> /\ pujas = <<>> /\ ratings = <<>> /\ comentarios = <<>>

\* C14: the owner of a listing is the authenticated caller that created it
\* and no later request changes it.
C14_OwnerNeverChanges ==
    [][/\ \A l \in DOMAIN subastas \cap DOMAIN subastas' :
             subastas'[l].usuario = subastas[l].usuario
       /\ \A l \in DOMAIN subastas' \ DOMAIN subastas :
             is_authenticated(subastas'[l].usuario)]_vars

\* C15: every stored bid has an amount > 0.
C15_StoredBidsArePositive ==
    \A p \in DOMAIN pujas : pujas[p].cantidad > 0

\* C16: a list request whose search parameter is given with fewer than 3
\* characters is rejected and returns nothing; with 3 or more it returns
\* exactly the listings the other filters keep whose title, description or
\* brand contains the text, letter case aside.
C16_SearchFilter ==
    (resp.op = "subasta_filtro" /\ resp.q.search.dado)
    => IF Len(resp.q.search.v) < 3
       THEN ~resp.ok /\ resp.ids = {}
       ELSE /\ resp.ok
            /\ resp.ids =
                 PorPrecio(subastas, pujas,
                    PorRating(subastas,
                       PorEstado(subastas,
                          {l \in DOMAIN subastas :
                             \/ icontains(subastas[l].titulo, resp.q.search.v)
                             \/ icontains(subastas[l].descripcion, resp.q.search.v)
                             \/ icontains(subastas[l].marca, resp.q.search.v)},
                          resp.q), resp.q), resp.q)

\* C17: the estado filter goes by the effective status: estado=abierta
\* returns no listing whose close time is <= now, estado=cerrada returns
\* every listing, among those the other filters keep, whose close time is
\* <= now.
C17_EstadoFilterIsEffective ==
    (resp.op = "subasta_filtro" /\ resp.ok /\ resp.q.estado.dado)
    => /\ resp.q.estado.v = "abierta"
          => \A l \in resp.ids : subastas[l].fecha_cierre > now
       /\ resp.q.estado.v = "cerrada"
          => \A l \in PorPrecio(subastas, pujas,
                          PorRating(subastas, PorSearch(subastas, resp.q), resp.q),
                          resp.q) :
                subastas[l].fecha_cierre <= now => l \in resp.ids

\* what a request in flight compares its amount with: the maximum it read,
\* the starting price it read when it read none
Umbral(r) == IF r.hay /\ r.max /= 0 THEN r.max ELSE r.precio

\* C18: bid admission is a check on what the request read followed by a
\* write nothing guards: a request is admitted exactly when its amount
\* exceeds the maximum (or starting price) it read, whatever has been stored
\* since, so two requests that read the same maximum are both admitted and
\* the amounts stored need not rise in admission order.
C18_AdmissionIsCheckThenWrite ==
    [][\A p \in Procs :
          (/\ pujando[p].pc = "save" /\ pujando'[p].pc = "done"
           /\ pujando[p].sub \in DOMAIN subastas)
          => /\ pujando'[p].fin = "ok" <=> pujando[p].cents > Umbral(pujando[p])
             /\ pujando'[p].fin = "ok" <=> NuevasPujas /= {}]_vars

\* two requests in flight together were both admitted and the bid stored
\* second does not exceed the bid stored first
C18_Witness ==
    /\ \A p \in Procs : pujando[p].pc = "done" /\ pujando[p].fin = "ok"
    /\ \E a, b \in DOMAIN pujas :
          /\ a < b
          /\ pujas[a].subasta = pujas[b].subasta
          /\ pujas[b].cantidad <= pujas[a].cantidad

\* C19: of two bid creations for the same amount on the same listing handled
\* together at most one is stored.
C19_EqualBidsStoredOnce ==
    \A a, b \in DOMAIN pujas :
       (pujas[a].subasta = pujas[b].subasta
          /\ pujas[a].cantidad = pujas[b].cantidad) => a = b

\* C20: a bid creation by an authenticated caller on a listing whose close
\* time has passed is rejected with the auction-closed reason, whatever the
\* amount.
C20_ClosedReasonComesFirst ==
    [][(/\ resp'.op = "puja_create"
        /\ resp'.sub \in DOMAIN subastas
        /\ now >= subastas[resp'.sub].fecha_cierre
        /\ resp'.motivo /= "permiso")
       => resp'.motivo = "cerrada"]_vars

\* C21: a detail read of a listing, a listing of its bids or a read of one
\* of its bids, at or after the close time and with the stored status open,
\* stores the status closed and changes no other field of the listing and no
\* bid, rating or comment; before the close time it changes no stored state.
C21_RefreshWritesOnlyEstado ==
    [][(/\ resp'.op \in {"subasta_detail", "puja_list", "puja_detail"}
        /\ resp'.sub \in DOMAIN subastas)
       => LET l == resp'.sub IN
          /\ UNCHANGED <<pujas, ratings, nextSubasta, nextPuja, nextRating, resto>>
          /\ IF now >= subastas[l].fecha_cierre /\ subastas[l].estado = "abierta"
             THEN subastas' = [subastas EXCEPT ![l].estado = "cerrada"]
             ELSE subastas' = subastas]_vars

\* a listing with bids, read at its close time through the list of its bids
\* and now stored closed
C21_Witness ==
    /\ resp.op = "puja_list"
    /\ resp.sub \in DOMAIN subastas
    /\ subastas[resp.sub].estado = "cerrada"
    /\ subastas[resp.sub].fecha_cierre = now
    /\ PujasDe(pujas, resp.sub) /= {}


\* a parameter that is given and is not a positive decimal
NoPositivo(x) == x.dado /\ (~x.num \/ x.v <= 0)

\* C22: a list request is rejected with a validation error and returns no
\* listing whenever rating_min, precio_min or precio_max is given and is not
\* a positive decimal (zero, negative or not a number), and whenever both
\* bounds are given with precio_min > precio_max; precio_min = precio_max is
\* accepted.
C22_BadFilterValuesRejected ==
    resp.op = "subasta_filtro"
    => /\ (\/ NoPositivo(resp.q.rating_min)
           \/ NoPositivo(resp.q.precio_min)
           \/ NoPositivo(resp.q.precio_max)
           \/ (/\ resp.q.precio_min.dado /\ resp.q.precio_max.dado
               /\ resp.q.precio_min.v > resp.q.precio_max.v))
          => /\ resp.motivo \in {"rating_min", "precio_min", "precio_max", "price_range"}
             /\ resp.ids = {}
       /\ (/\ resp.q = [SinFiltro EXCEPT !.precio_min = resp.q.precio_min,
                                         !.precio_max = resp.q.precio_min]
           /\ resp.q.precio_min.dado /\ resp.q.precio_min.num
           /\ resp.q.precio_min.v > 0)
          => resp.ok


\* C23: on an open listing an update of a bid's amount asked by its bidder or
\* by an administrator is accepted without comparing the amount with the
\* other bids or with the starting price: whatever the amount, at or below a
\* sibling bid's included, the update succeeds and the amount is stored.
C23_BidUpdateHasNoAmountCheck ==
    [][\A u \in Callers, l \in DOMAIN subastas, p \in DOMAIN pujas, c \in Cantidades :
          (/\ PujaUpdate(u, l, p, c)
           /\ IsPujaOwnerOrAdmin(u, pujas[p])
           /\ subastas[l].estado = "abierta"
           /\ now < subastas[l].fecha_cierre)
          => /\ resp'.ok
             /\ pujas' = [pujas EXCEPT ![p].cantidad = c]]_vars

\* the starting price is 2 and stays so, so a bid stored below it was put
\* there by an update; its sibling is higher
C23_Witness ==
    /\ resp.op = "puja_update" /\ resp.ok
    /\ \E a, b \in PujasDe(pujas, resp.sub) :
          /\ 0 < pujas[a].cantidad
          /\ pujas[a].cantidad < subastas[resp.sub].precio_inicial
          /\ pujas[a].cantidad < pujas[b].cantidad


\* the listings a step creates
NuevasSubastas == DOMAIN subastas' \ DOMAIN subastas

C25_RatingWriteByOwnerOrAdmin ==
    [][\A u \in Users, l \in DOMAIN subastas, r \in DOMAIN ratings :
          (/\ r \in RatingsDe(ratings, l)
           /\ ratings[r].usuario /= u /\ ~is_staff(u)
           /\ \/ RatingDestroy(u, l, r)
              \/ \E v \in ValoresEntrada : RatingUpdate(u, l, r, v))
          => /\ ~resp'.ok
             /\ ratings' = ratings
             /\ subastas' = subastas]_vars


\* C26: closing is irreversible: a listing whose effective status is closed
\* (now >= its close time) has it closed after every step, a listing update
\* by its owner or an administrator included, so it takes no bid any more.
C26_ClosingIsIrreversible ==
    [][\A l \in DOMAIN subastas \cap DOMAIN subastas' :
          get_estado_actual(subastas[l].fecha_cierre, now) = "cerrada"
          => /\ get_estado_actual(subastas'[l].fecha_cierre, now') = "cerrada"
             /\ NuevasPujas = {}]_vars


\* C27: in every reachable state the current price of a listing is at least
\* its starting price and the amount of every bid stored on it is strictly
\* above its starting price.
C27_BidsAboveStartingPrice ==
    \A l \in DOMAIN subastas :
       /\ get_precio_actual(subastas, pujas, l) >= subastas[l].precio_inicial
       /\ \A p \in PujasDe(pujas, l) : pujas[p].cantidad > subastas[l].precio_inicial


C29_StoredClosedIsPastClose ==
    \A l \in DOMAIN subastas :
       subastas[l].estado = "cerrada" => subastas[l].fecha_cierre <= now


\* C30: two rating mutations by different users on one listing, interleaved
\* in any order, leave no stale mean: once both have completed, the stored
\* mean of the listing is the rounded mean of the Ratings it then holds.
C30_NoStaleMean ==
    \A l \in DOMAIN subastas :
       (/\ \A p \in Procs :
              procs[p].pc = "done" /\ procs[p].fin = "ok" /\ procs[p].sub = l
        /\ \A p, q \in Procs : p /= q => procs[p].usuario /= procs[q].usuario
        /\ RatingsDe(ratings, l) /= {})
       => subastas[l].valoracion =
             Round2(SumaValores(ratings, RatingsDe(ratings, l)),
                    Cardinality(RatingsDe(ratings, l)))

=============================================================================
